---- MODULE Spec2Model ----
(***************************************************************************)
(* A model of the ETF holdings scraper: the class VanguardETFScraper of    *)
(* src/src/scrapers.py and the command run of src/src/main.py.             *)
(*                                                                         *)
(* The browser is the environment.  Its current page is the variable       *)
(* `page`; what the driver's queries return on it (which elements a        *)
(* selector finds, whether they are enabled, the cell texts of a row) is   *)
(* read from that record.  Python values keep their type in a `type`       *)
(* field, so that None, a list and a bool are never confused.              *)
(***************************************************************************)
EXTENDS Integers, Sequences, FiniteSets, TLC

(***************************************************************************)
(* Bounds of the model (not program constants).                            *)
(***************************************************************************)
MaxRows == 2
MaxPresent == 2
MaxTables == 2
MaxComponents == 2
MaxElements == 2

(***************************************************************************)
(* Program constants.                                                      *)
(***************************************************************************)
max_pages == 50

next_selectors ==
  << "//button[contains(text(), 'Next')]",
     "//a[contains(text(), 'Next')]",
     "//button[@aria-label='Next page']",
     "//button[@aria-label='Go to next page']",
     ".pagination-next",
     ".next-page",
     "[data-testid*='next']",
     "//button[contains(@class, 'next')]",
     ".pager-next",
     "//span[contains(text(), '>')]/parent::button" >>

holdings_keywords == {"ticker", "symbol", "%", "percentage", "holding", "equity"}

ticker_stopwords ==
  {"USD", "CAD", "EUR", "GBP", "CLASS", "CORP", "INC", "LLC", "LTD"}

fallback_tags == {"table", "tbody", "tr"}

(***************************************************************************)
(* Python values.                                                          *)
(***************************************************************************)
PyNone == [type |-> "NoneType"]
PyList(s) == [type |-> "list", items |-> s]
PyBool(b) == [type |-> "bool", val |-> b]
Pending == [type |-> "pending"]

\* Python truthiness of a value (`if x:` / `if not x:`).
Truthy(v) ==
  CASE v.type = "NoneType" -> FALSE
    [] v.type = "list" -> v.items # <<>>
    [] v.type = "bool" -> v.val
    [] OTHER -> TRUE

SeqsUpTo(S, n) == UNION {[1..k -> S] : k \in 0..n}

RECURSIVE Flatten(_)
Flatten(ss) == IF ss = <<>> THEN <<>> ELSE Head(ss) \o Flatten(Tail(ss))

(***************************************************************************)
(* Texts.  A text is a sequence of whitespace-separated tokens; the        *)
(* regular expressions of extract_holding_data_from_row look at tokens.    *)
(***************************************************************************)
Tokens == {"AAPL", "MSFT", "USD", "Apple", "Incorporated", "5.2%", "3.1%"}

\* len(token)
TokLen(t) ==
  CASE t = "AAPL" -> 4 [] t = "MSFT" -> 4 [] t = "USD" -> 3
    [] t = "Apple" -> 5 [] t = "Incorporated" -> 12
    [] t = "5.2%" -> 4 [] t = "3.1%" -> 4

\* re.search(r"(\d+\.?\d*)\s*%", token): the number matched, in tenths.
IsPctToken(t) == t \in {"5.2%", "3.1%"}
PctValue(t) == CASE t = "5.2%" -> 52 [] t = "3.1%" -> 31

\* re.search(r"\b([A-Z]{2,6})\b", token)
IsUpperWord(t) == t \in {"AAPL", "MSFT", "USD"}

RECURSIVE TextLen(_)
TextLen(text) ==
  IF text = <<>> THEN 0
  ELSE TokLen(Head(text)) + (IF Len(text) > 1 THEN 1 ELSE 0) + TextLen(Tail(text))

\* The first of the positions that match (0: none matches).
FirstIndex(hits) ==
  IF hits = {} THEN 0 ELSE CHOOSE i \in hits : \A j \in hits : i <= j

\* re.sub(r"\b[A-Z]{2,6}\b", "", text) followed by the whitespace collapse.
RECURSIVE CleanText(_)
CleanText(text) ==
  IF text = <<>> THEN <<>>
  ELSE IF IsUpperWord(Head(text)) THEN CleanText(Tail(text))
       ELSE <<Head(text)>> \o CleanText(Tail(text))

(***************************************************************************)
(* Rows.  A row is the sequence of its cells, a cell a text.               *)
(***************************************************************************)
RowApple == << <<"AAPL">>, <<"Apple", "Incorporated">>, <<"5.2%">> >>
RowMsft == << <<"MSFT">>, <<"3.1%">> >>
RowNoPct == << <<"MSFT">>, <<"Apple", "Incorporated">> >>
RowCurrency == << <<"USD", "MSFT">>, <<"5.2%">> >>
RowBlank == << <<>> >>

RowCatalog == {RowApple, RowMsft, RowNoPct, RowCurrency, RowBlank}

\* row.text: the texts of the cells, joined.
RowText(row) == Flatten(row)

\* all_text of extract_holding_data_from_row: the non-empty cell texts, then
\* the non-empty row text.
AllText(row) ==
  LET cells == SelectSeq(row, LAMBDA c : c # <<>>)
  IN cells \o (IF RowText(row) # <<>> THEN <<RowText(row)>> ELSE <<>>)

\* One pass of the parsing loop over a text, from the values found so far.
ParseText(acc, text) ==
  LET p == FirstIndex({i \in DOMAIN text : IsPctToken(text[i])})
      t == FirstIndex({i \in DOMAIN text : IsUpperWord(text[i])})
      percentage ==
        IF p # 0 /\ acc.percentage = PyNone
        THEN [type |-> "float", tenths |-> PctValue(text[p])]
        ELSE acc.percentage
      ticker ==
        IF t # 0 /\ acc.ticker = "" /\ text[t] \notin ticker_stopwords
        THEN text[t] ELSE acc.ticker
      clean == CleanText(text)
      name ==
        IF TextLen(text) > 10 /\ p = 0 /\ acc.name = <<>>
           /\ clean # <<>> /\ TextLen(clean) > 5
        THEN clean ELSE acc.name
  IN [ticker |-> ticker, name |-> name, percentage |-> percentage]

RECURSIVE ParseTexts(_, _)
ParseTexts(acc, texts) ==
  IF texts = <<>> THEN acc
  ELSE ParseTexts(ParseText(acc, Head(texts)), Tail(texts))

extract_holding_data_from_row(row) ==
  ParseTexts([ticker |-> "", name |-> <<>>, percentage |-> PyNone], AllText(row))

(***************************************************************************)
(* The page the browser shows.                                             *)
(*   tableOk   what wait_for_holdings_table answers on it                  *)
(*   dom       what the queries of find_angular_holdings_table return:     *)
(*             the Angular components with the tables below each (a table  *)
(*             is the set of words of its lower-cased text), the elements  *)
(*             of the second query (their tag names), and whether the      *)
(*             driver raises on the first query                            *)
(*   tblRows   the rows below the element find_angular_holdings_table      *)
(*             returns; selRows the rows the selector chain finds          *)
(*   nextDom   per `next' selector, what find_element gives                *)
(***************************************************************************)
TextNone == {"name"}
TextId == {"ticker", "name"}
TextWt == {"%", "name"}
TextBoth == {"ticker", "%"}
TextOther == {"holding"}
TableTexts == {TextNone, TextId, TextWt, TextBoth, TextOther}

ElementTags == {"td", "table", "tr"}

\* What the driver gives for one `next' selector: no element
\* (NoSuchElementException), an error other than the two the loop catches, or
\* an element, with is_enabled(), is_displayed() and whether the scroll and
\* click scripts run on it without raising.
Absent == [probe |-> "absent", enabled |-> FALSE, displayed |-> FALSE, scripts |-> FALSE]
Broken == [probe |-> "error", enabled |-> FALSE, displayed |-> FALSE, scripts |-> FALSE]
Found(e, d, k) == [probe |-> "found", enabled |-> e, displayed |-> d, scripts |-> k]
NonAbsent == {Broken} \cup {Found(e, d, k) : e, d, k \in BOOLEAN}

NoNextDom == [i \in 1..Len(next_selectors) |-> Absent]

\* The `next' DOMs with at most n selectors that find something.
NextDoms(n) ==
  UNION { { [i \in 1..Len(next_selectors) |-> IF i \in S THEN f[i] ELSE Absent] :
            f \in [S -> NonAbsent] } :
          S \in {T \in SUBSET (1..Len(next_selectors)) : Cardinality(T) <= n} }

\* The sequences of at most k components holding at most n tables in all.
RECURSIVE CompSeqs(_, _)
CompSeqs(k, n) ==
  {<<>>} \cup
  (IF k = 0 THEN {}
   ELSE UNION { { <<c>> \o rest : rest \in CompSeqs(k - 1, n - Len(c)) } :
                c \in SeqsUpTo(TableTexts, n) })

TableDoms ==
  [error : BOOLEAN,
   components : CompSeqs(MaxComponents, MaxTables),
   elements : SeqsUpTo(ElementTags, MaxElements)]

DomNoTable == [error |-> FALSE, components |-> <<>>, elements |-> <<>>]
DomHoldings == [error |-> FALSE, components |-> << <<TextBoth>> >>, elements |-> <<>>]

BlankPage ==
  [tableOk |-> TRUE, dom |-> DomNoTable, tblRows |-> <<>>, selRows |-> <<>>,
   nextDom |-> NoNextDom]

(***************************************************************************)
(* find_angular_holdings_table                                             *)
(***************************************************************************)
IsKeywordTable(text) == text \cap holdings_keywords # {}

\* The first table, component by component, whose text holds a keyword.
RECURSIVE FirstKeywordTable(_, _, _)
FirstKeywordTable(components, c, t) ==
  IF c > Len(components) THEN PyNone
  ELSE IF t > Len(components[c]) THEN FirstKeywordTable(components, c + 1, 1)
  ELSE IF IsKeywordTable(components[c][t])
       THEN [type |-> "element", via |-> "keyword", component |-> c, index |-> t]
       ELSE FirstKeywordTable(components, c, t + 1)

\* The first element of the second query that is a table, a tbody or a tr.
FirstFallbackElement(elements) ==
  LET k == FirstIndex({i \in DOMAIN elements : elements[i] \in fallback_tags})
  IN IF k = 0 THEN PyNone
     ELSE [type |-> "element", via |-> "xpath", component |-> 0, index |-> k]

\* The same function without its second query.
find_angular_holdings_table_no_fallback(dom) ==
  IF dom.error THEN PyNone ELSE FirstKeywordTable(dom.components, 1, 1)

find_angular_holdings_table(dom) ==
  IF dom.error THEN PyNone
  ELSE LET table == FirstKeywordTable(dom.components, 1, 1)
       IN IF table # PyNone THEN table ELSE FirstFallbackElement(dom.elements)

(***************************************************************************)
(* go_to_next_page: what it returns on a `next' DOM and which selector's   *)
(* element it clicked (0: none).                                           *)
(***************************************************************************)
Qualifies(el) == el.probe = "found" /\ el.enabled /\ el.displayed

\* The same loop without the is_displayed() test.
RECURSIVE ProbeNextEnabledOnly(_, _)
ProbeNextEnabledOnly(nextDom, i) ==
  IF i > Len(next_selectors) THEN [ret |-> FALSE, activated |-> 0]
  ELSE CASE nextDom[i].probe = "absent" -> ProbeNextEnabledOnly(nextDom, i + 1)
         [] nextDom[i].probe = "error" -> [ret |-> FALSE, activated |-> 0]
         [] OTHER -> IF nextDom[i].enabled
                     THEN IF nextDom[i].scripts
                          THEN [ret |-> TRUE, activated |-> i]
                          ELSE [ret |-> FALSE, activated |-> 0]
                     ELSE ProbeNextEnabledOnly(nextDom, i + 1)

go_to_next_page_enabled_only(nextDom) == ProbeNextEnabledOnly(nextDom, 1)

RECURSIVE ProbeNext(_, _)
ProbeNext(nextDom, i) ==
  IF i > Len(next_selectors) THEN [ret |-> FALSE, activated |-> 0]
  ELSE CASE nextDom[i].probe = "absent" -> ProbeNext(nextDom, i + 1)
         [] nextDom[i].probe = "error" -> [ret |-> FALSE, activated |-> 0]
         [] OTHER -> IF nextDom[i].enabled /\ nextDom[i].displayed
                     THEN IF nextDom[i].scripts
                          THEN [ret |-> TRUE, activated |-> i]
                          ELSE [ret |-> FALSE, activated |-> 0]
                     ELSE ProbeNext(nextDom, i + 1)

go_to_next_page(nextDom) == ProbeNext(nextDom, 1)

(***************************************************************************)
(* extract_holdings_from_current_page                                      *)
(***************************************************************************)
\* The rows the function iterates over.
RowsOnPage(p) ==
  IF find_angular_holdings_table(p.dom) # PyNone THEN p.tblRows ELSE p.selRows

HoldingOf(row) ==
  LET d == extract_holding_data_from_row(row)
  IN [Ticker |-> d.ticker, Name |-> d.name, Percentage |-> d.percentage.tenths]

IsParsed(row) ==
  LET d == extract_holding_data_from_row(row)
  IN d.ticker # "" /\ d.percentage # PyNone

\* The local list `holdings' when the loop over the rows has ended.
RECURSIVE HoldingsOfRows(_)
HoldingsOfRows(rows) ==
  IF rows = <<>> THEN <<>>
  ELSE (IF IsParsed(Head(rows)) THEN <<HoldingOf(Head(rows))>> ELSE <<>>)
       \o HoldingsOfRows(Tail(rows))

ExtractedHoldings(p) == HoldingsOfRows(RowsOnPage(p))

\* The function ends after its try block without a return statement.
extract_holdings_from_current_page(p) ==
  LET holdings == ExtractedHoldings(p) IN PyNone

\* The table-presence wait of the pagination loop.
wait_for_holdings_table(p) == p.tableOk

(***************************************************************************)
(* navigate_to_holding_details and navigate_to_equity_section, on what    *)
(* their selector loops meet: an element that is clicked, none at all, or  *)
(* a driver error outside the exceptions the loop catches.                 *)
(***************************************************************************)
NavOutcomes == {"clicked", "notfound", "error"}

navigate_to_holding_details(e) == e.holdingNav = "clicked"

navigate_to_equity_section(e) == e.equityNav # "error"

(***************************************************************************)
(* The state.                                                              *)
(*   page, history   the page shown now, and every page shown so far       *)
(*   env             what the page load, the two section navigations and   *)
(*                   the wait for the table of a run meet                  *)
(*   pc, called      where the running method stands; which was called     *)
(*   ret             what the last method call returned                    *)
(*   clicks          the `next' selectors whose element was clicked        *)
(*   page_number, all_holdings, page_holdings                              *)
(*                   the locals of scrape_paginated_holdings               *)
(*   portfolio_data, result                                                *)
(*                   the local and the return value of                     *)
(*                   scrape_portfolio_composition                          *)
(*   out             the messages printed by the pagination loop           *)
(***************************************************************************)
VARIABLES page, history, env, pc, called, ret, clicks,
          page_number, all_holdings, page_holdings, portfolio_data, result, out

classVars ==
  << page, history, env, pc, called, ret, clicks,
     page_number, all_holdings, page_holdings, portfolio_data, result, out >>

(***************************************************************************)
(* The state of the command run (main).                                    *)
(*   margs           the parsed arguments: single_page, max_pages (0: not  *)
(*                   given)                                                *)
(*   menv            what the page load and the waits of main meet, and    *)
(*                   whether the table search of the single-page branch    *)
(*                   raises                                                *)
(*   mdom, mretry    the candidate tables of the page shown; those shown   *)
(*                   once the section has been navigated to again          *)
(*   mfate           in a multi-page run, what handling the page shown     *)
(*                   meets, and whether a `next' control leads on          *)
(*   mpc             where main stands                                     *)
(*   session, quits  the browser session; the calls of driver.quit()       *)
(*   nudges, searches  the calls main itself has made of                   *)
(*                   ensure_on_holdings_section (each with the number of   *)
(*                   searches made before it) and of find_holdings_table   *)
(*                   (each with what it returned)                          *)
(*   found, data, total_holdings   the locals of main                      *)
(*   scraped, written, pageIndex   the records taken from each page so     *)
(*                   far, the number of pages whose records are in the     *)
(*                   file, and the number of the page shown                *)
(*   file            the output file: its data rows, or None before the    *)
(*                   first write                                           *)
(*   outcome         how main ended                                        *)
(***************************************************************************)
VARIABLES margs, menv, mdom, mretry, mfate, mpc, session, quits, nudges,
          searches, found, data, total_holdings, scraped, written, pageIndex,
          file, outcome

mainVars ==
  << margs, menv, mdom, mretry, mfate, mpc, session, quits, nudges,
     searches, found, data, total_holdings, scraped, written, pageIndex,
     file, outcome >>

vars == << classVars, mainVars >>

\* The command run, before it has started.
MainIdle ==
  /\ margs = [single_page |-> FALSE, max_pages |-> 0]
  /\ menv = [setup |-> "ok", search |-> "ok"]
  /\ mdom = <<>>
  /\ mretry = <<>>
  /\ mfate = "last"
  /\ mpc = "idle"
  /\ session = "none"
  /\ quits = 0
  /\ nudges = <<>>
  /\ searches = <<>>
  /\ found = Pending
  /\ data = Pending
  /\ total_holdings = Pending
  /\ scraped = <<>>
  /\ written = 0
  /\ pageIndex = 1
  /\ file = PyNone
  /\ outcome = "running"

NoEnv ==
  [load |-> "ok", holdingNav |-> "clicked", equityNav |-> "clicked",
   wait |-> "ok"]

\* Everything but the page, before any method has run.
ClassIdle ==
  /\ history = <<page>>
  /\ env = NoEnv
  /\ pc = "idle"
  /\ called = "none"
  /\ ret = Pending
  /\ clicks = <<>>
  /\ page_number = 1
  /\ all_holdings = <<>>
  /\ page_holdings = Pending
  /\ portfolio_data = Pending
  /\ result = Pending
  /\ out = <<>>

(***************************************************************************)
(* Single method calls.                                                    *)
(***************************************************************************)
CallGoToNextPage ==
  /\ pc = "idle"
  /\ LET r == go_to_next_page(page.nextDom)
     IN /\ ret' = PyBool(r.ret)
        /\ clicks' = IF r.activated # 0 THEN Append(clicks, r.activated) ELSE clicks
  /\ pc' = "returned"
  /\ called' = "go_to_next_page"
  /\ UNCHANGED << page, history, env, page_number, all_holdings, page_holdings,
                  portfolio_data, result, out >>
  /\ UNCHANGED mainVars

CallFindTable ==
  /\ pc = "idle"
  /\ ret' = find_angular_holdings_table(page.dom)
  /\ pc' = "returned"
  /\ called' = "find_angular_holdings_table"
  /\ UNCHANGED << page, history, env, clicks, page_number, all_holdings,
                  page_holdings, portfolio_data, result, out >>
  /\ UNCHANGED mainVars

CallExtract ==
  /\ pc = "idle"
  /\ ret' = extract_holdings_from_current_page(page)
  /\ pc' = "returned"
  /\ called' = "extract_holdings_from_current_page"
  /\ UNCHANGED << page, history, env, clicks, page_number, all_holdings,
                  page_holdings, portfolio_data, result, out >>
  /\ UNCHANGED mainVars

InitNext ==
  /\ page \in {[BlankPage EXCEPT !.nextDom = d] : d \in NextDoms(MaxPresent)}
  /\ ClassIdle
  /\ MainIdle

SpecNext == InitNext /\ [][CallGoToNextPage]_vars

InitTable ==
  /\ page \in {[BlankPage EXCEPT !.dom = d] : d \in TableDoms}
  /\ ClassIdle
  /\ MainIdle

SpecTable == InitTable /\ [][CallFindTable]_vars

ExtractPages ==
  { [BlankPage EXCEPT !.dom = d, !.tblRows = r, !.selRows = s] :
      d \in {DomNoTable, DomHoldings},
      r \in SeqsUpTo(RowCatalog, MaxRows),
      s \in {<<>>, <<RowMsft>>} }

InitExtract ==
  /\ page \in ExtractPages
  /\ ClassIdle
  /\ MainIdle

SpecExtract == InitExtract /\ [][CallExtract]_vars

(***************************************************************************)
(* scrape_paginated_holdings.  One pass of its loop body takes the locals  *)
(* (page_number, all_holdings, page_holdings, out) and the page shown, and *)
(* gives them back with `exit' (the loop was left by a break) and          *)
(* `activated' (the `next' selector whose element was clicked, 0: none).   *)
(***************************************************************************)
Msg(tag, n) == [tag |-> tag, page |-> n]

Say(st, tag) == [st EXCEPT !.out = Append(@, Msg(tag, st.page_number))]

\* The wait failed: break.
TableFailed(st, p) == [Say(st, "table_failed") EXCEPT !.exit = TRUE]

\* The try to reach the next page, and page_number += 1 when it succeeded.
Paginate(st, p) ==
  LET nx == go_to_next_page(p.nextDom)
  IN IF ~nx.ret
     THEN [Say(st, "no_more_pages") EXCEPT !.exit = TRUE]
     ELSE [st EXCEPT !.page_number = @ + 1, !.activated = nx.activated]

\* `if not page_holdings:' with `continue' in the place of `break'.
EmptyPageContinue(st, p) == Say(st, "no_holdings")

\* `if not page_holdings:' without the break: the pass goes on to the next page.
EmptyPageGoesOn(st, p) == Paginate(Say(st, "no_holdings"), p)

\* `if not page_holdings:': the page is reported and the loop is left.
EmptyPage(st, p) == [Say(st, "no_holdings") EXCEPT !.exit = TRUE]

LoopBody(st, p) ==
  LET st1 == Say(st, "scraping")
  IN IF ~wait_for_holdings_table(p) THEN TableFailed(st1, p)
     ELSE LET ph == extract_holdings_from_current_page(p)
              st2 == [st1 EXCEPT !.page_holdings = ph]
          IN IF ~Truthy(ph) THEN EmptyPage(st2, p)
             ELSE Paginate([Say(st2, "found") EXCEPT
                              !.all_holdings = @ \o ph.items], p)

\* The number of passes of the loop body so far.
Iterations == Len(SelectSeq(out, LAMBDA m : m.tag = "scraping"))

(***************************************************************************)
(* DataFrames: the columns and the rows.                                   *)
(***************************************************************************)
EmptyFrame ==
  [type |-> "DataFrame", columns |-> <<"Ticker", "Percentage", "Name">>,
   rows |-> <<>>]

\* The orders sort_values("Percentage", ascending=False) may give `rows'.
SortedByPercentage(rows) ==
  LET n == Len(rows)
      perms == {f \in [1..n -> 1..n] : \A i, j \in 1..n : i # j => f[i] # f[j]}
  IN { [i \in 1..n |-> rows[f[i]]] :
         f \in {g \in perms : \A i \in 1..(n - 1) :
                  rows[g[i]].Percentage >= rows[g[i + 1]].Percentage} }

(***************************************************************************)
(* scrape_portfolio_composition, in steps: up to the call of               *)
(* scrape_paginated_holdings; one pass of the pagination loop (or its end  *)
(* at the page cap); the return of scrape_paginated_holdings; the rest.    *)
(***************************************************************************)
\* The pages a run may be shown.
ScraperPages ==
  { [tableOk |-> w, dom |-> d, tblRows |-> r, selRows |-> s, nextDom |-> n] :
      w \in BOOLEAN,
      d \in {DomNoTable, DomHoldings},
      r \in SeqsUpTo({RowApple, RowMsft, RowNoPct}, MaxRows),
      s \in {<<>>, <<RowMsft>>},
      n \in {NoNextDom,
             [NoNextDom EXCEPT ![1] = Found(TRUE, TRUE, TRUE)],
             [NoNextDom EXCEPT ![1] = Found(FALSE, TRUE, TRUE)]} }

\* `except Exception' without its return: the exception goes on to the
\* caller.
OnExceptionPropagate == [type |-> "exception", columns |-> <<>>, rows |-> <<>>]

\* `except Exception as e': the error is printed and the empty table returned.
OnException == EmptyFrame

StartScrape ==
  /\ pc = "start"
  /\ called' = "scrape_portfolio_composition"
  /\ IF env.load = "raise"
     THEN /\ result' = OnException
          /\ pc' = "done"
     ELSE IF \/ ~navigate_to_holding_details(env)
             \/ ~navigate_to_equity_section(env)
          THEN /\ result' = EmptyFrame
               /\ pc' = "done"
          ELSE /\ result' = result
               /\ pc' = "loop"
  /\ page_number' = 1
  /\ all_holdings' = <<>>
  /\ UNCHANGED << page, history, env, ret, clicks, page_holdings,
                  portfolio_data, out >>
  /\ UNCHANGED mainVars

ScrapeLoop ==
  /\ pc = "loop"
  /\ Iterations <= max_pages
  /\ IF page_number <= max_pages /\ env.wait = "raise"
     THEN /\ out' = Append(out, Msg("scraping", page_number))
          /\ result' = OnException
          /\ pc' = "done"
          /\ UNCHANGED << page_number, all_holdings, page_holdings, clicks,
                          page, history >>
     ELSE /\ result' = result
          /\ IF page_number <= max_pages
             THEN LET st == LoopBody([page_number |-> page_number,
                                      all_holdings |-> all_holdings,
                                      page_holdings |-> page_holdings,
                                      out |-> out, exit |-> FALSE,
                                      activated |-> 0], page)
                  IN /\ page_number' = st.page_number
                     /\ all_holdings' = st.all_holdings
                     /\ page_holdings' = st.page_holdings
                     /\ out' = st.out
                     /\ pc' = IF st.exit THEN "exit" ELSE "loop"
                     /\ IF st.activated # 0
                        THEN /\ clicks' = Append(clicks, st.activated)
                             /\ \E p \in ScraperPages :
                                  /\ page' = p
                                  /\ history' = Append(history, p)
                        ELSE UNCHANGED << clicks, page, history >>
             ELSE /\ pc' = "exit"
                  /\ UNCHANGED << page_number, all_holdings, page_holdings,
                                  out, clicks, page, history >>
  /\ UNCHANGED << env, called, ret, portfolio_data >>
  /\ UNCHANGED mainVars

ReturnHoldings ==
  /\ pc = "exit"
  /\ out' = Append(out, Msg("total", Len(all_holdings)))
  /\ portfolio_data' = PyList(all_holdings)
  /\ pc' = "back"
  /\ UNCHANGED << page, history, env, called, ret, clicks, page_number,
                  all_holdings, page_holdings, result >>
  /\ UNCHANGED mainVars

FinishScrape ==
  /\ pc = "back"
  /\ IF Truthy(portfolio_data)
     THEN \E rows \in SortedByPercentage(portfolio_data.items) :
            result' = [type |-> "DataFrame",
                       columns |-> <<"Ticker", "Name", "Percentage">>,
                       rows |-> rows]
     ELSE result' = EmptyFrame
  /\ pc' = "done"
  /\ ret' = result'
  /\ UNCHANGED << page, history, env, called, clicks, page_number,
                  all_holdings, page_holdings, portfolio_data, out >>
  /\ UNCHANGED mainVars

InitScraper ==
  /\ page \in ScraperPages
  /\ history = <<page>>
  /\ env \in [load : {"ok", "raise"}, holdingNav : NavOutcomes,
              equityNav : NavOutcomes, wait : {"ok", "raise"}]
  /\ pc = "start"
  /\ called = "none"
  /\ ret = Pending
  /\ clicks = <<>>
  /\ page_number = 1
  /\ all_holdings = <<>>
  /\ page_holdings = Pending
  /\ portfolio_data = Pending
  /\ result = Pending
  /\ out = <<>>
  /\ MainIdle

NextScraper == StartScrape \/ ScrapeLoop \/ ReturnHoldings \/ FinishScrape

\* The method runs to its end: it is one sequential call.
SpecScraper == InitScraper /\ [][NextScraper]_vars /\ WF_vars(NextScraper)

ItemsOf(v) == IF v.type = "list" THEN v.items ELSE <<>>

\* The records of the well-formed rows among `rows', in their order.
WellFormedRecords(rows) ==
  LET good == SelectSeq(rows, IsParsed)
  IN [i \in 1..Len(good) |-> HoldingOf(good[i])]

(***************************************************************************)
(* C1, C3, C5, C9.                                                         *)
(***************************************************************************)
\* What a page shown to the loop holds: the records of its well-formed rows,
\* when its table loads.
PageRecords(p) ==
  IF p.tableOk THEN WellFormedRecords(RowsOnPage(p)) ELSE <<>>

RecordsOfPages(pages) == Flatten([k \in 1..Len(pages) |-> PageRecords(pages[k])])

Reported(tag) == \E i \in 1..Len(out) : out[i].tag = tag

\* C1: the pagination loop makes at most max_pages (50) passes, whatever the
\* `next' control and the pages do, and the run then comes to its end.
C1_BoundedPagination == [](Iterations <= max_pages) /\ <>(pc = "done")

\* A run has ended on a page whose table loaded, whose rows are well formed
\* and whose `next' control was there to be clicked.
C1_Witness ==
  /\ pc = "done"
  /\ Iterations >= 1
  /\ page.tableOk
  /\ WellFormedRecords(RowsOnPage(page)) # <<>>
  /\ go_to_next_page(page.nextDom).ret

\* C3 as stated: the table handed back holds the records of the pages
\* visited, page after page, each page's records in row order.
C3_ResultIsConcatenation ==
  (pc = "done" /\ Reported("scraping")) =>
    result.rows = RecordsOfPages(history)

\* C5 as stated: after a page whose extraction gave nothing, the run goes on:
\* the step to the next page is tried (it reports that there are no more
\* pages, or the next page is scraped).
C5_RunContinuesAfterEmptyPage ==
  pc = "done" =>
    \A i \in 1..Len(out) :
      out[i].tag = "no_holdings" =>
        \E j \in (i + 1)..Len(out) : out[j].tag \in {"no_more_pages", "scraping"}

\* C5 as amended: a page whose extraction gave nothing adds no record and
\* ends the pagination loop: no `next' control is clicked for it, no later
\* page is scraped, and what was accumulated before it is what is returned.
C5_EmptyPageEndsLoop ==
  \A i \in 1..Len(out) :
    out[i].tag = "no_holdings" =>
      /\ pc \in {"exit", "back", "done"}
      /\ out[i].page = page_number
      /\ Len(clicks) = out[i].page - 1
      /\ \A j \in (i + 1)..Len(out) : out[j].tag = "total"
      /\ pc \in {"back", "done"} => portfolio_data = PyList(all_holdings)

\* A run has ended after an empty extraction although the `next' control of
\* that page was there to be clicked.
C5_Witness ==
  /\ pc = "done"
  /\ Reported("no_holdings")
  /\ go_to_next_page(page.nextDom).ret

\* C9 as stated: when the pagination stops because the next page cannot be
\* reached, or because its table does not load, after N pages with records,
\* scrape_paginated_holdings returns the records of those N pages.
C9_StopKeepsScrapedPages ==
  pc \in {"back", "done"} =>
    LET m == Len(history)
        before == SubSeq(history, 1, m - 1)
        full(pages) == \A k \in 1..Len(pages) : PageRecords(pages[k]) # <<>>
    IN /\ (full(history) /\ ~go_to_next_page(history[m].nextDom).ret)
            => portfolio_data = PyList(RecordsOfPages(history))
       /\ (full(before) /\ ~history[m].tableOk)
            => portfolio_data = PyList(RecordsOfPages(before))

(***************************************************************************)
(* C10.                                                                    *)
(***************************************************************************)
ReturnedFrom(method) == pc = "returned" /\ called = method

FirstQualifying(nextDom) == FirstIndex({i \in DOMAIN nextDom : Qualifies(nextDom[i])})

\* Where the probing stops: at the first element that is present, enabled and
\* displayed, or at the first unexpected driver error (0: nowhere).
FirstStop(nextDom) ==
  FirstIndex({i \in DOMAIN nextDom :
                Qualifies(nextDom[i]) \/ nextDom[i].probe = "error"})

HasIdentifier(text) == text \cap {"ticker", "symbol"} # {}
HasWeight(text) == text \cap {"%", "percentage"} # {}
HasBothRoles(text) == HasIdentifier(text) /\ HasWeight(text)

\* The candidate tables in scan order, and a table's place among them.
Candidates(dom) == Flatten(dom.components)

RECURSIVE TablesBefore(_, _)
TablesBefore(components, c) ==
  IF c <= 1 THEN 0 ELSE Len(components[c - 1]) + TablesBefore(components, c - 1)

ScanPosition(dom, el) == TablesBefore(dom.components, el.component) + el.index

ChoseCandidate(dom, k) ==
  /\ ret # PyNone
  /\ ret.via = "keyword"
  /\ ScanPosition(dom, ret) = k

\* C6 as stated: the first candidate, in scan order, with both an identifier
\* and a weight column is returned, and None when no candidate has both.
C6_FirstWithBothRoles ==
  ReturnedFrom("find_angular_holdings_table") =>
    LET c == Candidates(page.dom)
        k == FirstIndex({i \in DOMAIN c : HasBothRoles(c[i])})
    IN IF k = 0 THEN ret = PyNone ELSE ChoseCandidate(page.dom, k)

\* C6 as amended: the first candidate, in scan order, whose text holds any of
\* the keywords is returned, whichever roles it shows; without one, the first
\* element of the second query that is a table, a tbody or a tr; None only
\* when there is neither, or when the driver raises.
C6_FirstWithAnyKeyword ==
  ReturnedFrom("find_angular_holdings_table") =>
    LET dom == page.dom
        c == Candidates(dom)
        k == FirstIndex({i \in DOMAIN c : \E w \in c[i] : w \in holdings_keywords})
        e == FirstIndex({i \in DOMAIN dom.elements :
                           dom.elements[i] \in fallback_tags})
    IN CASE dom.error -> ret = PyNone
         [] ~dom.error /\ k # 0 -> ChoseCandidate(dom, k)
         [] ~dom.error /\ k = 0 /\ e # 0 ->
              ret # PyNone /\ ret.via = "xpath" /\ ret.index = e
         [] OTHER -> ret = PyNone

\* A candidate showing the weight role alone was returned although a
\* candidate with both roles follows it.
C6_Witness ==
  /\ ReturnedFrom("find_angular_holdings_table")
  /\ ret # PyNone
  /\ ret.via = "keyword"
  /\ LET cands == Candidates(page.dom)
         k == ScanPosition(page.dom, ret)
     IN /\ ~HasIdentifier(cands[k])
        /\ \E j \in (k + 1)..Len(cands) : HasBothRoles(cands[j])

(***************************************************************************)
(* C2.                                                                     *)
(***************************************************************************)
\* C2 as stated: extract_holdings_from_current_page yields the records of
\* exactly the well-formed rows of the page, in row order.
C2_YieldsWellFormedRows ==
  ReturnedFrom("extract_holdings_from_current_page") =>
    ItemsOf(ret) = WellFormedRecords(RowsOnPage(page))

(***************************************************************************)
(* The functions main imports from scrapers.  Their code is not in         *)
(* src/src/scrapers.py; they are modelled from the specification           *)
(* (sections 4.1 to 4.8).                                                  *)
(***************************************************************************)
\* 4.1 Text Normalizer, on the header labels of the model.
normalize(text) ==
  CASE text = "Ticker" -> "ticker"
    [] text = " % of  Fund" -> "% of fund"
    [] text = "Name" -> "name"
    [] text = "Sector" -> "sector"
    [] OTHER -> text

role_aliases ==
  [Identifier |-> {"ticker", "symbol"},
   Weight |-> {"% of fund", "% of net assets", "weight", "% of etf"},
   Name |-> {"name"}]

\* 4.2 Semantic Column Matcher: the first header that holds an alias of the
\* role (0: absent).
match(role, headers) ==
  FirstIndex({i \in DOMAIN headers : normalize(headers[i]) \in role_aliases[role]})

\* 4.3 and 4.4: the first visible candidate with headers in which both the
\* identifier and the weight column are found.
find_holdings_table(candidates) ==
  LET k == FirstIndex({i \in DOMAIN candidates :
                         /\ candidates[i].visible
                         /\ candidates[i].headers # <<>>
                         /\ match("Identifier", candidates[i].headers) # 0
                         /\ match("Weight", candidates[i].headers) # 0})
  IN IF k = 0 THEN PyNone
     ELSE [type |-> "tuple", headers |-> candidates[k].headers,
           rows |-> candidates[k].rows]

\* str.strip() and the weight formatting of 4.6, on the cell texts of the model.
Trim(cell) == IF cell = "  " THEN "" ELSE cell

NormalizeWeight(w) == IF w = "3.5" THEN "3.5%" ELSE w

\* 4.6 Row-to-Record Projection.
RECURSIVE ProjectRows(_, _, _, _)
ProjectRows(rows, ti, wi, ni) ==
  IF rows = <<>> THEN <<>>
  ELSE LET row == Head(rows)
           rest == ProjectRows(Tail(rows), ti, wi, ni)
       IN IF Len(row) < ti \/ Len(row) < wi \/ Trim(row[ti]) = ""
          THEN rest
          ELSE << [identifier |-> Trim(row[ti]),
                   weight |-> NormalizeWeight(Trim(row[wi])),
                   name |-> IF ni # 0 /\ Len(row) >= ni THEN Trim(row[ni]) ELSE ""]
               >> \o rest

parse_ticker_weight(headers, rows) ==
  ProjectRows(rows, match("Identifier", headers), match("Weight", headers),
              match("Name", headers))

\* The records a page gives: none when no table qualifies.
RecordsOfDom(candidates) ==
  LET t == find_holdings_table(candidates)
  IN IF t = PyNone THEN <<>> ELSE parse_ticker_weight(t.headers, t.rows)

(***************************************************************************)
(* The pages a command run may be shown.                                   *)
(***************************************************************************)
Table(headers, rows) == [visible |-> TRUE, headers |-> headers, rows |-> rows]

HoldingsHeaders == <<"Ticker", " % of  Fund", "Name">>
RowAapl == <<"AAPL", "5.2%", "Apple Inc">>
RowMsftBare == <<"MSFT", "3.5", "">>
RowNoTicker == <<"  ", "", "">>

Decoy == Table(<<"Name", "Sector">>, << <<"Apple Inc", "Tech">> >>)
WeightOnly == Table(<<"Name", " % of  Fund">>, << <<"Apple Inc", "5.2%">> >>)

MainDoms ==
  { <<>>,
    <<Decoy>>,
    <<Decoy, Table(HoldingsHeaders, <<RowAapl, RowNoTicker>>)>>,
    <<WeightOnly, Table(HoldingsHeaders, <<RowMsftBare, RowAapl>>)>>,
    <<Table(HoldingsHeaders, <<RowNoTicker>>)>> }

\* What handling a page of a multi-page run meets: the page is handled and
\* a `next' control leads on ("next") or none does ("last"), the scraping
\* of the page raises ("crash"), or the write of its records does
\* ("write_fails").
Fates == {"next", "last", "crash", "write_fails"}

MaxSitePages == 3
MaxCap == 2

(***************************************************************************)
(* main, in steps.  The browser session exists from the start (it is       *)
(* created before the try block).                                          *)
(***************************************************************************)
\* driver.quit() after the try block, with no `finally': reached only when
\* nothing was raised.
RaiseSkipsFinally(kind) ==
  /\ outcome' = kind
  /\ mpc' = IF kind = "success" THEN "finally" ELSE "done"

\* The try block is left, by its end, by the return or by an exception: the
\* finally clause runs next.
Raise(kind) ==
  /\ outcome' = kind
  /\ mpc' = "finally"

\* A search for the table that raised.
Raised == [type |-> "raised"]

\* `if total_holdings == 0: raise' left out.
MultiVerdictNoCheck(total) == "success"

\* The verdict of the multi-page branch on the count it was returned.
MultiVerdict(total) == IF total = 0 THEN "RuntimeError" ELSE "success"

\* The verdict of the single-page branch on the rows it parsed.
SingleVerdict(rows) == IF rows = <<>> THEN "RuntimeError" ELSE "success"

\* The page load, the waits, the banners and the first navigation to the
\* holdings section.
MainSetup ==
  /\ mpc = "start"
  /\ nudges' = IF menv.setup \in {"ok", "tables_timeout"}
               THEN Append(nudges, Len(searches)) ELSE nudges
  /\ IF menv.setup = "ok"
     THEN /\ mpc' = IF margs.single_page THEN "search" ELSE "pp_scrape"
          /\ outcome' = outcome
     ELSE Raise("exception")
  /\ UNCHANGED << margs, menv, mdom, mretry, mfate, session, quits, searches,
                  found, data, total_holdings, scraped, written, pageIndex, file >>
  /\ UNCHANGED classVars

\* The first search with no second try: the failure is raised as soon as
\* the search finds no table.
MainSearchNoRetry ==
  /\ mpc = "search"
  /\ IF menv.search = "raise"
     THEN /\ Raise("exception")
          /\ found' = found
          /\ searches' = Append(searches, Raised)
     ELSE /\ found' = find_holdings_table(mdom)
          /\ searches' = Append(searches, found')
          /\ IF Truthy(found')
             THEN /\ mpc' = "parse"
                  /\ outcome' = outcome
             ELSE Raise("RuntimeError")
  /\ UNCHANGED << margs, menv, mdom, mretry, mfate, session, quits, nudges,
                  data, total_holdings, scraped, written, pageIndex, file >>
  /\ UNCHANGED classVars

\* The single-page branch: the first search for the table.
MainSearch ==
  /\ mpc = "search"
  /\ IF menv.search = "raise"
     THEN /\ Raise("exception")
          /\ found' = found
          /\ searches' = Append(searches, Raised)
     ELSE /\ found' = find_holdings_table(mdom)
          /\ searches' = Append(searches, found')
          /\ mpc' = IF Truthy(found') THEN "parse" ELSE "retry"
          /\ outcome' = outcome
  /\ UNCHANGED << margs, menv, mdom, mretry, mfate, session, quits, nudges,
                  data, total_holdings, scraped, written, pageIndex, file >>
  /\ UNCHANGED classVars

\* The navigation to the section once more, the second search, and the
\* failure when it finds nothing either.
MainRetry ==
  /\ mpc = "retry"
  /\ nudges' = Append(nudges, Len(searches))
  /\ mdom' = mretry
  /\ found' = find_holdings_table(mretry)
  /\ searches' = Append(searches, found')
  /\ IF Truthy(found')
     THEN /\ mpc' = "parse"
          /\ outcome' = outcome
     ELSE Raise("RuntimeError")
  /\ UNCHANGED << margs, menv, mretry, mfate, session, quits, data,
                  total_holdings, scraped, written, pageIndex, file >>
  /\ UNCHANGED classVars

\* The rows of the table found, and the end of the single-page branch.
MainParse ==
  /\ mpc = "parse"
  /\ data' = PyList(parse_ticker_weight(found.headers, found.rows))
  /\ Raise(SingleVerdict(data'.items))
  /\ UNCHANGED << margs, menv, mdom, mretry, mfate, session, quits, nudges,
                  searches, found, total_holdings, scraped, written, pageIndex,
                  file >>
  /\ UNCHANGED classVars

(***************************************************************************)
(* scrape_all_pages_progressive, per page: the table is found again and    *)
(* its rows projected; the records are written to the file; the page cap   *)
(* is looked at and the step to the next page is made.                     *)
(***************************************************************************)
ProgressiveScrape ==
  /\ mpc = "pp_scrape"
  /\ IF mfate = "crash"
     THEN /\ Raise("exception")
          /\ scraped' = scraped
     ELSE /\ scraped' = Append(scraped, RecordsOfDom(mdom))
          /\ mpc' = "pp_write"
          /\ outcome' = outcome
  /\ UNCHANGED << margs, menv, mdom, mretry, mfate, session, quits, nudges,
                  searches, found, data, total_holdings, written, pageIndex, file >>
  /\ UNCHANGED classVars

\* The records of the page are kept for one write at the end of the run.
ProgressiveWriteDeferred ==
  /\ mpc = "pp_write"
  /\ IF mfate = "write_fails"
     THEN /\ Raise("exception")
          /\ UNCHANGED << file, written >>
     ELSE /\ file' = IF mfate = "last"
                     THEN PyList(Flatten(scraped)) ELSE file
          /\ written' = IF mfate = "last" THEN Len(scraped) ELSE written
          /\ mpc' = "pp_advance"
          /\ outcome' = outcome
  /\ UNCHANGED << margs, menv, mdom, mretry, mfate, session, quits, nudges,
                  searches, found, data, total_holdings, scraped, pageIndex >>
  /\ UNCHANGED classVars

ProgressiveWrite ==
  /\ mpc = "pp_write"
  /\ IF mfate = "write_fails"
     THEN /\ Raise("exception")
          /\ UNCHANGED << file, written >>
     ELSE /\ file' = PyList(ItemsOf(file) \o scraped[Len(scraped)])
          /\ written' = written + 1
          /\ mpc' = "pp_advance"
          /\ outcome' = outcome
  /\ UNCHANGED << margs, menv, mdom, mretry, mfate, session, quits, nudges,
                  searches, found, data, total_holdings, scraped, pageIndex >>
  /\ UNCHANGED classVars

CapReached == margs.max_pages # 0 /\ pageIndex >= margs.max_pages

ProgressiveAdvance ==
  /\ mpc = "pp_advance"
  /\ IF CapReached \/ mfate # "next"
     THEN /\ total_holdings' = Len(Flatten(scraped))
          /\ mpc' = "multi_return"
          /\ UNCHANGED << pageIndex, mdom, mfate >>
     ELSE /\ pageIndex' = pageIndex + 1
          /\ mdom' \in MainDoms
          /\ mfate' \in (IF pageIndex + 1 >= MaxSitePages
                         THEN Fates \ {"next"} ELSE Fates)
          /\ mpc' = "pp_scrape"
          /\ total_holdings' = total_holdings
  /\ UNCHANGED << margs, menv, mretry, session, quits, nudges, searches,
                  found, data, scraped, written, file, outcome >>
  /\ UNCHANGED classVars

\* The multi-page branch, once scrape_all_pages_progressive has returned.
MainMultiReturn ==
  /\ mpc = "multi_return"
  /\ Raise(MultiVerdict(total_holdings))
  /\ UNCHANGED << margs, menv, mdom, mretry, mfate, session, quits, nudges,
                  searches, found, data, total_holdings, scraped, written,
                  pageIndex, file >>
  /\ UNCHANGED classVars

\* finally: driver.quit()
MainFinally ==
  /\ mpc = "finally"
  /\ quits' = quits + 1
  /\ session' = "closed"
  /\ mpc' = "done"
  /\ UNCHANGED << margs, menv, mdom, mretry, mfate, nudges, searches, found,
                  data, total_holdings, scraped, written, pageIndex, file,
                  outcome >>
  /\ UNCHANGED classVars

InitMain ==
  /\ page = BlankPage
  /\ ClassIdle
  /\ margs \in [single_page : BOOLEAN, max_pages : 0..MaxCap]
  /\ menv \in [setup : {"ok", "get_raises", "body_timeout", "tables_timeout"},
               search : {"ok", "raise"}]
  /\ mdom \in MainDoms
  /\ mretry \in MainDoms
  /\ mfate \in Fates
  /\ margs.single_page => margs.max_pages = 0 /\ mfate = "last"
  /\ ~margs.single_page => menv.search = "ok" /\ mretry = <<>>
  /\ mpc = "start"
  /\ session = "open"
  /\ quits = 0
  /\ nudges = <<>>
  /\ searches = <<>>
  /\ found = Pending
  /\ data = Pending
  /\ total_holdings = Pending
  /\ scraped = <<>>
  /\ written = 0
  /\ pageIndex = 1
  /\ file = PyNone
  /\ outcome = "running"

NextMain ==
  \/ MainSetup \/ MainSearch \/ MainRetry \/ MainParse
  \/ ProgressiveScrape \/ ProgressiveWrite \/ ProgressiveAdvance
  \/ MainMultiReturn \/ MainFinally

SpecMain == InitMain /\ [][NextMain]_vars

Spec == SpecMain

(***************************************************************************)
(* C4, C7, C8.                                                             *)
(***************************************************************************)
\* The records a run has taken from the pages.
Collected == IF margs.single_page THEN ItemsOf(data) ELSE Flatten(scraped)

\* An exception of the page load, of a wait or of the scraping cuts the run
\* short.
Interrupted ==
  \/ menv.setup # "ok"
  \/ margs.single_page /\ menv.search = "raise"
  \/ ~margs.single_page /\ mfate \in {"crash", "write_fails"}

C7_SuccessIffRows ==
  mpc = "done" =>
    /\ (outcome = "success") <=> (Len(Collected) >= 1)
    /\ Len(Collected) = 0 => outcome = "RuntimeError"

\* C7 as amended: a run that no exception of the page load, of a wait or of
\* the scraping cuts short ends in success when at least one row was
\* extracted and with a RuntimeError when none was; a run cut short ends
\* with that exception, whatever it had extracted.  So success is never
\* reported without a row.
C7_VerdictOfCompletedRun ==
  mpc = "done" =>
    /\ Interrupted => outcome = "exception"
    /\ ~Interrupted =>
         outcome = IF Len(Collected) >= 1 THEN "success" ELSE "RuntimeError"
    /\ outcome = "success" => Len(Collected) >= 1

\* A multi-page run went through two pages or more, found no row and ended
\* with the RuntimeError.
C7_Witness ==
  /\ mpc = "done"
  /\ ~margs.single_page
  /\ Len(scraped) >= 2
  /\ Collected = <<>>
  /\ outcome = "RuntimeError"

\* C8 as stated: when a run ends having collected at least one record (and no
\* write has failed), the records collected are in the output file.
C8_CollectedIsPersisted ==
  (mpc = "done" /\ Collected # <<>> /\ mfate # "write_fails") =>
    file = PyList(Collected)

(***************************************************************************)
(* C11: the page cap of scrape_paginated_holdings.                         *)
(***************************************************************************)
\* C11 as stated: the `next' control is activated at most max_pages - 1
\* times in a run, and never once max_pages pages have been scraped.
C11_ActivationsBelowCap ==
  /\ Len(clicks) <= max_pages - 1
  /\ Len(SelectSeq(out, LAMBDA m : m.tag = "found")) >= max_pages
       => Len(clicks) <= max_pages - 1

\* C11: the case of the claim does not arise.  No page is ever reported as
\* scraped with holdings, the pagination step is never reached and the loop
\* never comes to a second page, so the place of the cap check relative to
\* the pagination step is not seen in any run.
C11_PaginationStepNeverReached ==
  /\ clicks = <<>>
  /\ page_number = 1
  /\ ~Reported("found")
  /\ ~Reported("no_more_pages")

(***************************************************************************)
(* C13: scrape_portfolio_composition and exceptions.                       *)
(***************************************************************************)
\* The page load raised, a section was not reached, the pagination raised,
\* or no holding was collected.
ScrapeFailed ==
  \/ env.load = "raise"
  \/ ~navigate_to_holding_details(env)
  \/ ~navigate_to_equity_section(env)
  \/ env.wait = "raise"
  \/ all_holdings = <<>>

\* C13: scrape_portfolio_composition always ends by returning a table, never
\* by an exception; when the page load or the pagination raised, when a
\* section navigation reported failure or when no holding was collected, the
\* table is the empty one with the columns Ticker, Percentage, Name.
C13_ReturnsEmptyTableOnFailure ==
  (pc = "done" /\ called = "scrape_portfolio_composition") =>
    /\ result.type = "DataFrame"
    /\ ScrapeFailed =>
         /\ result.columns = <<"Ticker", "Percentage", "Name">>
         /\ result.rows = <<>>

\* A run whose page load and navigations went well and whose pagination
\* raised on its first page has ended with the empty table.
C13_Witness ==
  /\ pc = "done"
  /\ env.load = "ok"
  /\ navigate_to_holding_details(env)
  /\ navigate_to_equity_section(env)
  /\ env.wait = "raise"
  /\ Reported("scraping")
  /\ result = EmptyFrame

(***************************************************************************)
(* C12, C14: main.                                                         *)
(***************************************************************************)
\* The calls of ensure_on_holdings_section made after the first search.
RetryNudges == SelectSeq(nudges, LAMBDA n : n >= 1)

\* The `could not find a holdings table' failure: the RuntimeError raised
\* with no table found.
NotFoundRaised == outcome = "RuntimeError" /\ found = PyNone

\* C12: in single-page mode, once the first search has returned and main
\* has gone on from it: when it returned absent, the section was navigated
\* to exactly once more, after that search, and the search made exactly
\* once more; when it returned a table, there was no further navigation and
\* no second search; and the `table not found' failure is raised exactly
\* when both searches returned absent.
C12_OneNudgeOneRetry ==
  (/\ margs.single_page
   /\ mpc \in {"parse", "finally", "done"}
   /\ searches # <<>>
   /\ searches[1] # Raised) =>
    /\ searches[1] = PyNone =>
         /\ RetryNudges = <<1>>
         /\ Len(searches) = 2
    /\ searches[1] # PyNone =>
         /\ RetryNudges = <<>>
         /\ Len(searches) = 1
    /\ NotFoundRaised => \A i \in DOMAIN searches : searches[i] = PyNone
    /\ (mpc \in {"finally", "done"} /\ searches = <<PyNone, PyNone>>)
         => NotFoundRaised

\* A single-page run whose first search found no table and whose second
\* search, after the navigation, found one has ended in success.
C12_Witness ==
  /\ margs.single_page
  /\ mpc = "done"
  /\ Len(searches) = 2
  /\ searches[1] = PyNone
  /\ searches[2] # PyNone
  /\ RetryNudges = <<1>>
  /\ outcome = "success"

\* C14: the session, open from the start of the run, is closed by exactly
\* one call of driver.quit() when main has ended, however it ended, and by
\* none before.
C14_SessionClosedOnce ==
  /\ mpc = "done" => quits = 1 /\ session = "closed"
  /\ mpc \in {"start", "search", "retry", "parse", "pp_scrape", "pp_write",
              "pp_advance", "multi_return", "finally"}
       => quits = 0 /\ session = "open"

\* A run cut short by an exception of the page load or of a wait has ended
\* with the session closed.
C14_Witness ==
  /\ mpc = "done"
  /\ outcome = "exception"
  /\ menv.setup # "ok"
  /\ quits = 1
  /\ session = "closed"

====
